---- MODULE Spec2Model ----
(***************************************************************************)
(* Nano-Q: the three command-line entry points                             *)
(*   Nano-Q/gemini_viz.py                 generate_visualization           *)
(*   gemini_qa.py                         answer_question                  *)
(*   nano-summarizer-website/gemini_qa.py answer_question                  *)
(* One run of one script is one behaviour.  Texts are sequences of         *)
(* one-character strings, so that str.strip, the re.sub fence pattern and  *)
(* json.loads are computed character by character.                         *)
(***************************************************************************)
EXTENDS Integers, Sequences, FiniteSets, TLC

\* ------------------------------------------------------------------ bounds

\* Whitespace characters put around a response text and inside a fence.
MaxPad == 1
\* Entries of the data_points list of a Stage 2 response.
MaxPoints == 1

\* ------------------------------------------------------------------- texts

\* The backtick character (the lexer of TLA+ takes no backtick in a string).
BT == "BACKTICK"
NL == "\n"
SP == " "
QUOTE == "\""

\* The characters str.strip() removes and \s matches (the ones the model uses).
Whitespace == {SP, NL}

\* The characters json's scanner skips between tokens.
JsonWhitespace == {SP, NL}

Digits == <<"0", "1", "2", "3", "4", "5", "6", "7", "8", "9">>

K_chart_type_suggestion ==
    <<"c", "h", "a", "r", "t", "_", "t", "y", "p", "e", "_",
      "s", "u", "g", "g", "e", "s", "t", "i", "o", "n">>
K_optimized_prompt ==
    <<"o", "p", "t", "i", "m", "i", "z", "e", "d", "_",
      "p", "r", "o", "m", "p", "t">>
K_title == <<"t", "i", "t", "l", "e">>
K_data_points == <<"d", "a", "t", "a", "_", "p", "o", "i", "n", "t", "s">>
K_label == <<"l", "a", "b", "e", "l">>
K_value == <<"v", "a", "l", "u", "e">>

S_bar == <<"b", "a", "r">>
S_pie == <<"p", "i", "e">>
S_line == <<"l", "i", "n", "e">>
S_area == <<"a", "r", "e", "a">>

\* The literal text of the pattern's first alternative: three backticks, json
FenceOpenJson == <<BT, BT, BT, "j", "s", "o", "n">>
\* The literal text of the pattern's second alternative: three backticks
FenceClose == <<BT, BT, BT>>

HasAt(s, i, lit) ==
    /\ i >= 1
    /\ i + Len(lit) - 1 <= Len(s)
    /\ SubSeq(s, i, i + Len(lit) - 1) = lit

\* First index >= i of s that holds no character of set ws (Len(s)+1 if none).
RECURSIVE SkipRun(_, _, _)
SkipRun(s, i, ws) ==
    IF i <= Len(s) /\ s[i] \in ws THEN SkipRun(s, i + 1, ws) ELSE i

RECURSIVE LStrip(_)
LStrip(s) ==
    IF s # <<>> /\ Head(s) \in Whitespace THEN LStrip(Tail(s)) ELSE s

RECURSIVE RStrip(_)
RStrip(s) ==
    IF s # <<>> /\ s[Len(s)] \in Whitespace
    THEN RStrip(SubSeq(s, 1, Len(s) - 1))
    ELSE s

\* str.strip()
Strip(s) == LStrip(RStrip(s))

\* $ without re.MULTILINE: the end of the text, or just before a final newline.
AtDollar(s, k) ==
    \/ k = Len(s) + 1
    \/ k = Len(s) /\ s[k] = NL

\* \s*[fence]$ tried at index i: the greedy whitespace run, then the literal,
\* then $.
\* No shorter run can match, a backtick being no whitespace.
CloseFenceAt(s, i) ==
    LET j == SkipRun(s, i, Whitespace)
    IN  HasAt(s, j, FenceClose) /\ AtDollar(s, j + Len(FenceClose))

\* Index just after ^[fence]json\s* when it matches at the start, else 1.
AfterOpenFence(s) ==
    IF HasAt(s, 1, FenceOpenJson)
    THEN SkipRun(s, 1 + Len(FenceOpenJson), Whitespace)
    ELSE 1

\* A mutant of ReSubFence: only the opening alternative is removed.
ReSubFence_OpenOnly(s) == SubSeq(s, AfterOpenFence(s), Len(s))

\* re.sub(r"^[fence]json\s*|\s*[fence]$", "", s), [fence] being three
\* backticks: every non-overlapping match, leftmost first, is deleted.  The
\* first alternative can match at index 1 only, the
\* second only where its literal ends at $, so there are at most two matches.
ReSubFence(s) ==
    LET from == AfterOpenFence(s)
        hits == {i \in from..Len(s) : CloseFenceAt(s, i)}
    IN  IF hits = {}
        THEN SubSeq(s, from, Len(s))
        ELSE LET i == CHOOSE x \in hits : \A y \in hits : x <= y
                 j == SkipRun(s, i, Whitespace) + Len(FenceClose)
             IN  SubSeq(s, from, i - 1) \o SubSeq(s, j, Len(s))

\* -------------------------------------------------------------------- JSON

\* A JSON value is [t |-> its kind, v |-> its content]: a string's characters,
\* a number, a list's values, a dict's <<key, value>> pairs in insertion order.
JStr(chars) == [t |-> "str", v |-> chars]
JNum(n) == [t |-> "num", v |-> n]
JList(vals) == [t |-> "list", v |-> vals]
JDict(pairs) == [t |-> "dict", v |-> pairs]
\* None, which JSON writes null.
PyNone == [t |-> "none", v |-> 0]
Null == <<"n", "u", "l", "l">>

HasKey(d, k) == \E i \in 1..Len(d.v) : d.v[i][1] = k

\* d[k] of a dict that holds k.
GetItem(d, k) == d.v[CHOOSE i \in 1..Len(d.v) : d.v[i][1] = k][2]

\* d[k] with a string key raises unless d is a dict that holds k: KeyError on
\* a dict, TypeError on a list, a str or an int.
Subscriptable(d, k) == d.t = "dict" /\ HasKey(d, k)

\* d[k] = x as the decoder's dict(pairs) does it: a repeated key keeps its
\* first place and takes the last value.
SetItem(pairs, k, x) ==
    IF \E i \in 1..Len(pairs) : pairs[i][1] = k
    THEN [i \in 1..Len(pairs) |->
            IF pairs[i][1] = k THEN <<k, x>> ELSE pairs[i]]
    ELSE Append(pairs, <<k, x>>)

DigitAt(s, i) == i <= Len(s) /\ \E d \in 1..10 : Digits[d] = s[i]
DigitValue(c) == (CHOOSE d \in 1..10 : Digits[d] = c) - 1

RECURSIVE DigitsOf(_)
DigitsOf(n) ==
    IF n < 10 THEN <<Digits[n + 1]>>
    ELSE Append(DigitsOf(n \div 10), Digits[(n % 10) + 1])

\* json.dumps(x, separators=("," + sep, ":" + sep)); the default sep is a space.
RECURSIVE Dumps(_, _)
RECURSIVE DumpsItems(_, _, _, _)
DumpsItems(x, i, sep, isDict) ==
    IF i > Len(x.v) THEN <<>>
    ELSE (IF i > 1 THEN <<",">> \o sep ELSE <<>>)
         \o (IF isDict
             THEN <<QUOTE>> \o x.v[i][1] \o <<QUOTE, ":">> \o sep
                  \o Dumps(x.v[i][2], sep)
             ELSE Dumps(x.v[i], sep))
         \o DumpsItems(x, i + 1, sep, isDict)
Dumps(x, sep) ==
    CASE x.t = "str" -> <<QUOTE>> \o x.v \o <<QUOTE>>
      [] x.t = "num" -> DigitsOf(x.v)
      [] x.t = "list" -> <<"[">> \o DumpsItems(x, 1, sep, FALSE) \o <<"]">>
      [] x.t = "dict" -> <<"{">> \o DumpsItems(x, 1, sep, TRUE) \o <<"}">>
      [] x.t = "none" -> Null

\* The decoder's results: a value and the index after it, or JSONDecodeError.
Decoded(x, i) == [ok |-> TRUE, val |-> x, pos |-> i]
JSONDecodeError == [ok |-> FALSE, val |-> JNum(0), pos |-> 0]

SkipWs(s, i) == SkipRun(s, i, JsonWhitespace)

\* py_scanstring from the index after the opening quote: the characters up to
\* the closing quote; a control character (strict mode) or the end of the text
\* is an error.  The model's texts hold no backslash.
RECURSIVE ScanString(_, _, _)
ScanString(s, i, acc) ==
    IF i > Len(s) \/ s[i] = NL THEN JSONDecodeError
    ELSE IF s[i] = QUOTE THEN Decoded(JStr(acc), i + 1)
    ELSE ScanString(s, i + 1, Append(acc, s[i]))

\* NUMBER_RE's integer part, (0|[1-9]\d*): a lone 0, or a run of digits.
RECURSIVE ScanDigits(_, _, _)
ScanDigits(s, i, acc) ==
    IF DigitAt(s, i)
    THEN ScanDigits(s, i + 1, 10 * acc + DigitValue(s[i]))
    ELSE Decoded(JNum(acc), i)

ScanNumber(s, i) ==
    IF s[i] = "0" THEN Decoded(JNum(0), i + 1)
    ELSE ScanDigits(s, i, 0)

\* scan_once, JSONObject and JSONArray of json.decoder / json.scanner, for
\* strings, non-negative integers, lists, dicts and null.
RECURSIVE ScanOnce(_, _)
RECURSIVE ScanMembers(_, _, _)
RECURSIVE ScanElements(_, _, _)

\* JSONObject's loop, i at the opening quote of a key.
ScanMembers(s, i, pairs) ==
    IF ~HasAt(s, i, <<QUOTE>>) THEN JSONDecodeError
    ELSE LET key == ScanString(s, i + 1, <<>>)
         IN  IF ~key.ok THEN JSONDecodeError
             ELSE LET c == SkipWs(s, key.pos)
                  IN  IF ~HasAt(s, c, <<":">>) THEN JSONDecodeError
                      ELSE LET x == ScanOnce(s, SkipWs(s, c + 1))
                           IN  IF ~x.ok THEN JSONDecodeError
                               ELSE LET e == SkipWs(s, x.pos)
                                        now == SetItem(pairs, key.val.v, x.val)
                                    IN  IF HasAt(s, e, <<"}">>)
                                        THEN Decoded(JDict(now), e + 1)
                                        ELSE IF HasAt(s, e, <<",">>)
                                        THEN ScanMembers(s, SkipWs(s, e + 1), now)
                                        ELSE JSONDecodeError

\* JSONArray's loop, i at the start of an element.
ScanElements(s, i, vals) ==
    LET x == ScanOnce(s, i)
    IN  IF ~x.ok THEN JSONDecodeError
        ELSE LET e == SkipWs(s, x.pos)
                 now == Append(vals, x.val)
             IN  IF HasAt(s, e, <<"]">>) THEN Decoded(JList(now), e + 1)
                 ELSE IF HasAt(s, e, <<",">>)
                 THEN ScanElements(s, SkipWs(s, e + 1), now)
                 ELSE JSONDecodeError

ScanOnce(s, i) ==
    IF i > Len(s) THEN JSONDecodeError
    ELSE IF s[i] = QUOTE THEN ScanString(s, i + 1, <<>>)
    ELSE IF s[i] = "{" THEN
        LET j == SkipWs(s, i + 1)
        IN  IF HasAt(s, j, <<"}">>) THEN Decoded(JDict(<<>>), j + 1)
            ELSE ScanMembers(s, j, <<>>)
    ELSE IF s[i] = "[" THEN
        LET j == SkipWs(s, i + 1)
        IN  IF HasAt(s, j, <<"]">>) THEN Decoded(JList(<<>>), j + 1)
            ELSE ScanElements(s, j, <<>>)
    ELSE IF HasAt(s, i, Null) THEN Decoded(PyNone, i + Len(Null))
    ELSE IF DigitAt(s, i) THEN ScanNumber(s, i)
    ELSE JSONDecodeError

\* json.loads(s): leading whitespace, one value, trailing whitespace, the end;
\* anything left over is "Extra data".
JsonLoads(s) ==
    LET x == ScanOnce(s, SkipWs(s, 1))
    IN  IF x.ok /\ SkipWs(s, x.pos) = Len(s) + 1 THEN x ELSE JSONDecodeError

\* ------------------------------------------------------ the model's replies

\* Runs of 0..MaxPad newlines.
RECURSIVE Newlines(_)
Newlines(n) == IF n = 0 THEN <<>> ELSE Append(Newlines(n - 1), NL)
Pads == {Newlines(n) : n \in 0..MaxPad}

\* The separators' trailing whitespace: compact, and json.dumps' default.
Seps == {<<>>, <<SP>>}

Prompt == JStr(<<"p">>)

MetaSuggestion(ct) ==
    JDict(<< <<K_chart_type_suggestion, ct>>, <<K_optimized_prompt, Prompt>> >>)

\* What a Stage 1 reply can denote: the three chart types, a type the renderer
\* does not know, a dict lacking one of the two keys, and a value that is no dict.
MetaValues ==
    {MetaSuggestion(JStr(c)) : c \in {S_bar, S_pie, S_line, S_area}}
    \cup {JDict(<< <<K_chart_type_suggestion, JStr(S_bar)>> >>),
          JDict(<< <<K_optimized_prompt, Prompt>> >>),
          JList(<<>>)}

Point(n) == JDict(<< <<K_label, JStr(<<"a">>)>>, <<K_value, JNum(n)>> >>)

RECURSIVE Points(_)
Points(n) == IF n = 0 THEN <<>> ELSE Append(Points(n - 1), Point(n))

Title == JStr(<<"t">>)

ChartSpec(points) ==
    JDict(<< <<K_title, Title>>, <<K_data_points, JList(points)>> >>)

\* What a Stage 2 reply can denote: a chart specification of 0..MaxPoints
\* points, one lacking title or data_points, a point lacking label or value,
\* and a value that is no dict.
ChartValues ==
    {ChartSpec(Points(n)) : n \in 0..MaxPoints}
    \cup {JDict(<< <<K_data_points, JList(Points(1))>> >>),
          JDict(<< <<K_title, Title>> >>),
          ChartSpec(<<JDict(<< <<K_label, JStr(<<"a">>)>> >>)>>),
          ChartSpec(<<JDict(<< <<K_value, JNum(1)>> >>)>>),
          JList(<<>>)}

\* A reply's wrapping: none, a fence opened by three backticks and json, or a
\* fence opened by three backticks alone.
Fences == {"none", "json", "plain"}

\* The text of a reply: J as it is, or J in a code fence, with whitespace
\* outside (outer) and between the markers and J (inner).
Wrap(J, fence, outer, inner) ==
    CASE fence = "none" -> outer \o J \o outer
      [] fence = "json" ->
            outer \o FenceOpenJson \o inner \o J \o inner \o FenceClose \o outer
      [] fence = "plain" ->
            outer \o FenceClose \o inner \o J \o inner \o FenceClose \o outer

Wrappings(J) ==
    {Wrap(J, "none", o, <<>>) : o \in Pads}
    \cup {Wrap(J, f, o, i) : f \in {"json", "plain"}, o \in Pads, i \in Pads}

\* Replies that are no JSON at all.
Malformed == {<<"{">>, <<"n", "o">>}

RepliesFor(values) ==
    UNION {Wrappings(Dumps(x, sep)) : x \in values, sep \in Seps} \cup Malformed

MetaReplies == RepliesFor(MetaValues)
ChartReplies == RepliesFor(ChartValues)

\* ------------------------------------------------------------------- state

VARIABLES
    prog,           \* the script run: "viz", "qa" or "web"
    key,            \* os.environ.get("GEMINI_API_KEY"): "unset", "empty", "set"
    module_found,   \* whether google.generativeai can be imported
    argc_ok,        \* len(sys.argv) >= 3 (read by the website script only)
    is_csv,         \* the --csv flag
    csv_ok,         \* whether pd.read_csv accepts input_data
    pc,             \* where the run is
    calls,          \* the library calls issued so far, in order
    figure,         \* pyplot's current figure: "none", "open", "closed"
    meta_response,  \* Stage 1: meta_response.text
    raw_meta_output,
    meta_output,
    chart_type,
    optimized_prompt,
    data_response,  \* Stage 2: data_response.text
    raw_chart_data_output,
    chart_data,
    result,         \* what the function returned to __main__
    stdout,
    stderr,
    exit_code       \* the process's exit status, -1 while it runs

vars ==
    <<prog, key, module_found, argc_ok, is_csv, csv_ok, pc, calls, figure,
      meta_response, raw_meta_output, meta_output, chart_type,
      optimized_prompt, data_response, raw_chart_data_output, chart_data,
      result, stdout, stderr, exit_code>>

inputs == <<prog, key, module_found, argc_ok, is_csv, csv_ok>>
stage1 ==
    <<meta_response, raw_meta_output, meta_output, chart_type, optimized_prompt>>
stage2 == <<data_response, raw_chart_data_output, chart_data>>

\* A name not bound yet: a text, and a value.
NoText == <<"UNBOUND">>
NoValue == [t |-> "unbound", v |-> 0]

\* The empty string the code binds raw_meta_output and raw_chart_data_output to.
EmptyText == <<>>

Init ==
    /\ prog \in {"viz", "qa", "web"}
    /\ key \in {"unset", "empty", "set"}
    /\ module_found \in BOOLEAN
    \* Only the website script counts its arguments, and it has no --csv;
    \* only a run with --csv hands input_data to pd.read_csv.
    /\ argc_ok \in (IF prog = "web" THEN BOOLEAN ELSE {TRUE})
    /\ is_csv \in (IF prog = "web" THEN {FALSE} ELSE BOOLEAN)
    /\ csv_ok \in (IF prog = "viz" /\ is_csv THEN BOOLEAN ELSE {TRUE})
    /\ pc = "start"
    /\ calls = <<>>
    /\ figure = "none"
    /\ meta_response = NoText
    /\ raw_meta_output = NoText
    /\ meta_output = NoValue
    /\ chart_type = NoValue
    /\ optimized_prompt = NoValue
    /\ data_response = NoText
    /\ raw_chart_data_output = NoText
    /\ chart_data = NoValue
    /\ result = NoValue
    /\ stdout = <<>>
    /\ stderr = <<>>
    /\ exit_code = -1

\* not os.environ.get("GEMINI_API_KEY"): None and "" are both falsy.
KeyMissing == key \in {"unset", "empty"}

\* A mutant of DumpsGetsFileKw: line 115 passes file=sys.stderr to print.
DumpsGetsFileKw_Print115(p, line) ==
    p = "viz" /\ line \in {18, 24, 36, 64, 90, 129}

\* The error reports that pass file=sys.stderr to json.dumps instead of print:
\* json.dumps(obj, file=...) hands the keyword to JSONEncoder.__init__, which
\* raises TypeError before anything is printed.
DumpsGetsFileKw(p, line) ==
    p = "viz" /\ line \in {18, 24, 36, 64, 90, 115, 129}

\* What reaches standard error from the report at a line that nothing encloses
\* in a handler for it: the JSON error object, or, where json.dumps raises, the
\* interpreter's traceback of the uncaught TypeError.
Reported(p, line) ==
    IF DumpsGetsFileKw(p, line)
    THEN [kind |-> "traceback", line |-> line]
    ELSE [kind |-> "json_error", line |-> line]

\* The report at a line followed by sys.exit(1), or the uncaught TypeError in
\* its place: either way the process ends with status 1.
ReportAndExit(p, line) ==
    /\ stderr' = Append(stderr, Reported(p, line))
    /\ exit_code' = 1
    /\ pc' = "exited"

\* An exception nothing catches: the traceback, and status 1.
Uncaught(line) ==
    /\ stderr' = Append(stderr, [kind |-> "traceback", line |-> line])
    /\ exit_code' = 1
    /\ pc' = "exited"

Call(name) == calls' = Append(calls, name)

\* ------------------------------------------- Nano-Q/gemini_viz.py, Stage 3

\* What a for loop over x goes through: a list's values, a dict's keys, a
\* str's characters; an int or None is not iterable (TypeError).
Iterable(x) == x.t \in {"list", "dict", "str"}
Items(x) ==
    CASE x.t = "list" -> x.v
      [] x.t = "dict" -> [i \in 1..Len(x.v) |-> JStr(x.v[i][1])]
      [] x.t = "str" -> [i \in 1..Len(x.v) |-> JStr(<<x.v[i]>>)]

\* [dp[k] for dp in chart_data["data_points"]] raises nothing.
ColumnReadable(cd, k) ==
    /\ Subscriptable(cd, K_data_points)
    /\ Iterable(GetItem(cd, K_data_points))
    /\ LET dps == Items(GetItem(cd, K_data_points))
       IN  \A i \in 1..Len(dps) : Subscriptable(dps[i], k)

\* Lines 96-98 raise nothing: labels, values and title are bound.
Extractable(cd) ==
    /\ ColumnReadable(cd, K_label)
    /\ ColumnReadable(cd, K_value)
    /\ Subscriptable(cd, K_title)

\* The plotting call of each branch of lines 100-113.
PlotCall(ct) ==
    CASE ct = JStr(S_bar) -> "sns.barplot"
      [] ct = JStr(S_pie) -> "plt.pie"
      [] ct = JStr(S_line) -> "sns.lineplot"

Supported(ct) == ct \in {JStr(S_bar), JStr(S_pie), JStr(S_line)}

K_image == <<"i", "m", "a", "g", "e">>
K_answer == <<"a", "n", "s", "w", "e", "r">>

\* base64.b64encode(buf.read()).decode('utf-8'), its content left abstract.
ImageBase64 == JStr(<<"i", "V", "B", "O", "R">>)

\* -------------------------------------------- Nano-Q/gemini_viz.py, the run

\* A mutant of VizConfigure: the credential is not checked.
VizConfigure_NoKeyCheck ==
    /\ prog = "viz" /\ pc = "start"
    /\ IF ~module_found THEN ReportAndExit("viz", 24)
       ELSE /\ pc' = "read_csv"
            /\ UNCHANGED <<stderr, exit_code>>
    /\ UNCHANGED <<inputs, calls, figure, stage1, stage2, result, stdout>>

\* Lines 13-25: the import, the credential check, the model object.
VizConfigure ==
    /\ prog = "viz" /\ pc = "start"
    /\ IF ~module_found THEN ReportAndExit("viz", 24)
       ELSE IF KeyMissing THEN ReportAndExit("viz", 18)
       ELSE /\ pc' = "read_csv"
            /\ UNCHANGED <<stderr, exit_code>>
    /\ UNCHANGED <<inputs, calls, figure, stage1, stage2, result, stdout>>

\* A mutant of VizReadCsv: a CSV that cannot be read is passed on as text.
VizReadCsv_IgnoreError ==
    /\ prog = "viz" /\ pc = "read_csv"
    /\ IF is_csv THEN Call("read_csv") ELSE UNCHANGED calls
    /\ pc' = "stage1"
    /\ UNCHANGED <<inputs, figure, stage1, stage2, result, stdout, stderr,
                   exit_code>>

\* Lines 28-37: pd.read_csv when --csv is given.
VizReadCsv ==
    /\ prog = "viz" /\ pc = "read_csv"
    /\ IF is_csv
       THEN /\ Call("read_csv")
            /\ IF csv_ok
               THEN pc' = "stage1" /\ UNCHANGED <<stderr, exit_code>>
               ELSE ReportAndExit("viz", 36)
       ELSE /\ pc' = "stage1"
            /\ UNCHANGED <<calls, stderr, exit_code>>
    /\ UNCHANGED <<inputs, figure, stage1, stage2, result, stdout>>

\* A mutant of VizStage1Call: a request that raised is issued again.
VizStage1Call_Retry ==
    /\ prog = "viz" /\ pc = "stage1"
    /\ Call("generate_content:meta")
    /\ \/ /\ raw_meta_output' = EmptyText
          /\ UNCHANGED <<meta_response, pc>>
       \/ \E r \in MetaReplies :
            /\ meta_response' = r
            /\ raw_meta_output' = Strip(r)
            /\ pc' = "stage1_parse"
    /\ UNCHANGED <<inputs, figure, meta_output, chart_type, optimized_prompt,
                   stage2, result, stdout, stderr, exit_code>>

\* Lines 51-54 and 63-65: the Stage 1 request; the client may raise.
VizStage1Call ==
    /\ prog = "viz" /\ pc = "stage1"
    /\ Call("generate_content:meta")
    /\ \/ /\ raw_meta_output' = EmptyText
          /\ ReportAndExit("viz", 64)
          /\ UNCHANGED meta_response
       \/ \E r \in MetaReplies :
            /\ meta_response' = r
            /\ raw_meta_output' = Strip(r)
            /\ pc' = "stage1_parse"
            /\ UNCHANGED <<stderr, exit_code>>
    /\ UNCHANGED <<inputs, figure, meta_output, chart_type, optimized_prompt,
                   stage2, result, stdout>>

\* Lines 56-65: the fence removed, the JSON decoded, the two keys read.
VizStage1Parse ==
    /\ prog = "viz" /\ pc = "stage1_parse"
    /\ LET clean_output == ReSubFence(Strip(raw_meta_output))
           decoded == JsonLoads(clean_output)
       IN  IF ~decoded.ok
           THEN /\ ReportAndExit("viz", 61)
                /\ UNCHANGED <<meta_output, chart_type, optimized_prompt>>
           ELSE /\ meta_output' = decoded.val
                /\ IF ~Subscriptable(decoded.val, K_chart_type_suggestion)
                   THEN /\ ReportAndExit("viz", 64)
                        /\ UNCHANGED <<chart_type, optimized_prompt>>
                   ELSE /\ chart_type' =
                                GetItem(decoded.val, K_chart_type_suggestion)
                        /\ IF ~Subscriptable(decoded.val, K_optimized_prompt)
                           THEN /\ ReportAndExit("viz", 64)
                                /\ UNCHANGED optimized_prompt
                           ELSE /\ optimized_prompt' =
                                      GetItem(decoded.val, K_optimized_prompt)
                                /\ pc' = "stage2"
                                /\ UNCHANGED <<stderr, exit_code>>
    /\ UNCHANGED <<inputs, calls, figure, meta_response, raw_meta_output,
                   stage2, result, stdout>>

\* A mutant of VizStage2Call: the chart type is checked before the request.
VizStage2Call_ValidateFirst ==
    /\ prog = "viz" /\ pc = "stage2"
    /\ IF ~Supported(chart_type)
       THEN /\ ReportAndExit("viz", 115)
            /\ UNCHANGED <<calls, data_response, raw_chart_data_output>>
       ELSE /\ Call("generate_content:data")
            /\ \/ /\ raw_chart_data_output' = EmptyText
                  /\ ReportAndExit("viz", 90)
                  /\ UNCHANGED data_response
               \/ \E r \in ChartReplies :
                    /\ data_response' = r
                    /\ raw_chart_data_output' = Strip(r)
                    /\ pc' = "stage2_parse"
                    /\ UNCHANGED <<stderr, exit_code>>
    /\ UNCHANGED <<inputs, figure, stage1, chart_data, result, stdout>>

\* Lines 79-82 and 89-91: the Stage 2 request; the client may raise.
VizStage2Call ==
    /\ prog = "viz" /\ pc = "stage2"
    /\ Call("generate_content:data")
    /\ \/ /\ raw_chart_data_output' = EmptyText
          /\ ReportAndExit("viz", 90)
          /\ UNCHANGED data_response
       \/ \E r \in ChartReplies :
            /\ data_response' = r
            /\ raw_chart_data_output' = Strip(r)
            /\ pc' = "stage2_parse"
            /\ UNCHANGED <<stderr, exit_code>>
    /\ UNCHANGED <<inputs, figure, stage1, chart_data, result, stdout>>

\* A mutant of VizStage2Parse: a reply that is no JSON is passed over.
VizStage2Parse_Lenient ==
    /\ prog = "viz" /\ pc = "stage2_parse"
    /\ LET decoded == JsonLoads(ReSubFence(Strip(raw_chart_data_output)))
       IN  chart_data' = IF decoded.ok THEN decoded.val ELSE chart_data
    /\ pc' = "figure"
    /\ UNCHANGED <<inputs, calls, figure, stage1, data_response,
                   raw_chart_data_output, result, stdout, stderr, exit_code>>

\* Lines 84-88: the fence removed, the JSON decoded.
VizStage2Parse ==
    /\ prog = "viz" /\ pc = "stage2_parse"
    /\ LET clean_output == ReSubFence(Strip(raw_chart_data_output))
           decoded == JsonLoads(clean_output)
       IN  IF ~decoded.ok
           THEN /\ ReportAndExit("viz", 87)
                /\ UNCHANGED chart_data
           ELSE /\ chart_data' = decoded.val
                /\ pc' = "figure"
                /\ UNCHANGED <<stderr, exit_code>>
    /\ UNCHANGED <<inputs, calls, figure, stage1, data_response,
                   raw_chart_data_output, result, stdout>>

\* Line 94: plt.figure(figsize=(10, 6)).
VizFigure ==
    /\ prog = "viz" /\ pc = "figure"
    /\ Call("plt.figure")
    /\ figure' = "open"
    /\ pc' = "render"
    /\ UNCHANGED <<inputs, stage1, stage2, result, stdout, stderr, exit_code>>

\* Lines 127-130: the handler of the Stage 3 try, after `before` more calls.
RenderFailed(before) ==
    /\ calls' = calls \o before \o <<"plt.close">>
    /\ figure' = "closed"
    /\ ReportAndExit("viz", 129)

\* A mutant of VizRender: an unknown chart type is drawn as a bar chart.
VizRender_DefaultBar ==
    /\ prog = "viz" /\ pc = "render"
    /\ IF ~Extractable(chart_data)
       THEN RenderFailed(<<>>)
       ELSE /\ calls' = Append(calls, "sns.barplot")
            /\ pc' = "save"
            /\ UNCHANGED <<figure, stderr, exit_code>>
    /\ UNCHANGED <<inputs, stage1, stage2, result, stdout>>

\* Lines 95-116 and 127-130: labels, values and title read, then the chart
\* drawn by its type.  The else branch's report stands inside the try: the
\* TypeError that json.dumps raises there is an Exception and reaches the
\* handler of line 127, where a SystemExit from sys.exit(1) would pass it by.
VizRender ==
    /\ prog = "viz" /\ pc = "render"
    /\ IF ~Extractable(chart_data)
       THEN RenderFailed(<<>>)
       ELSE IF Supported(chart_type)
       THEN \/ RenderFailed(<<PlotCall(chart_type)>>)
            \/ /\ calls' = Append(calls, PlotCall(chart_type))
               /\ pc' = "save"
               /\ UNCHANGED <<figure, stderr, exit_code>>
       ELSE IF DumpsGetsFileKw("viz", 115)
       THEN RenderFailed(<<>>)
       ELSE /\ ReportAndExit("viz", 115)
            /\ UNCHANGED <<calls, figure>>
    /\ UNCHANGED <<inputs, stage1, stage2, result, stdout>>

\* Lines 119-130: the figure saved as PNG, encoded, closed, the result
\* returned; tight_layout or savefig may raise.
VizSave ==
    /\ prog = "viz" /\ pc = "save"
    /\ \/ RenderFailed(<<"plt.savefig">>) /\ UNCHANGED result
       \/ /\ calls' = calls \o <<"plt.savefig", "plt.close">>
          /\ figure' = "closed"
          /\ result' = JDict(<< <<K_image, ImageBase64>>,
                                <<K_title, GetItem(chart_data, K_title)>> >>)
          /\ pc' = "print"
          /\ UNCHANGED <<stderr, exit_code>>
    /\ UNCHANGED <<inputs, stage1, stage2, stdout>>

\* print(json.dumps(result)) of __main__, and the interpreter's normal end.
PrintResult ==
    /\ stdout' = Append(stdout, Dumps(result, <<SP>>))
    /\ exit_code' = 0
    /\ pc' = "exited"
    /\ UNCHANGED <<inputs, calls, figure, stage1, stage2, result, stderr>>

\* Lines 139-140.
VizPrint == prog = "viz" /\ pc = "print" /\ PrintResult

\* ----------------------------------------------------- gemini_qa.py, the run

\* What response.text can be.
Answers == {<<"y">>, <<SP, "y", NL>>, <<>>}

\* Lines 7-15 and 33-35: the import, the credential check, the model object.
QaConfigure ==
    /\ prog = "qa" /\ pc = "start"
    /\ IF ~module_found THEN ReportAndExit("qa", 34)
       ELSE IF KeyMissing THEN ReportAndExit("qa", 12)
       ELSE /\ pc' = "ask"
            /\ UNCHANGED <<stderr, exit_code>>
    /\ UNCHANGED <<inputs, calls, figure, stage1, stage2, result, stdout>>

\* A mutant of QaAsk: the handler reports and does not exit.
QaAsk_NoExit ==
    /\ prog = "qa" /\ pc = "ask"
    /\ Call("generate_content:qa")
    /\ \/ /\ stderr' = Append(stderr, Reported("qa", 31))
          /\ result' = PyNone
       \/ \E a \in Answers :
            /\ result' = JDict(<< <<K_answer, JStr(Strip(a))>> >>)
            /\ UNCHANGED stderr
    /\ pc' = "print"
    /\ UNCHANGED <<inputs, figure, stage1, stage2, stdout, exit_code>>

\* Lines 17-32: the prompt, the request, the answer; the client may raise.
QaAsk ==
    /\ prog = "qa" /\ pc = "ask"
    /\ Call("generate_content:qa")
    /\ \/ ReportAndExit("qa", 31) /\ UNCHANGED result
       \/ \E a \in Answers :
            /\ result' = JDict(<< <<K_answer, JStr(Strip(a))>> >>)
            /\ pc' = "print"
            /\ UNCHANGED <<stderr, exit_code>>
    /\ UNCHANGED <<inputs, figure, stage1, stage2, stdout>>

\* Lines 44-45.
QaPrint == prog = "qa" /\ pc = "print" /\ PrintResult

\* --------------------------- nano-summarizer-website/gemini_qa.py, the run

\* Lines 2 and 31-34: the module-level import, then the argument count.
WebStart ==
    /\ prog = "web" /\ pc = "start"
    /\ IF ~module_found THEN Uncaught(2)
       ELSE IF ~argc_ok THEN ReportAndExit("web", 33)
       ELSE /\ pc' = "configure"
            /\ UNCHANGED <<stderr, exit_code>>
    /\ UNCHANGED <<inputs, calls, figure, stage1, stage2, result, stdout>>

\* Lines 7-13: the credential check, the model object.
WebConfigure ==
    /\ prog = "web" /\ pc = "configure"
    /\ IF KeyMissing THEN ReportAndExit("web", 10)
       ELSE /\ pc' = "ask"
            /\ UNCHANGED <<stderr, exit_code>>
    /\ UNCHANGED <<inputs, calls, figure, stage1, stage2, result, stdout>>

\* Lines 15-29: the prompt, the request, the answer; the client may raise.
WebAsk ==
    /\ prog = "web" /\ pc = "ask"
    /\ Call("generate_content:qa")
    /\ \/ ReportAndExit("web", 28) /\ UNCHANGED result
       \/ \E a \in Answers :
            /\ result' = JDict(<< <<K_answer, JStr(Strip(a))>> >>)
            /\ pc' = "print"
            /\ UNCHANGED <<stderr, exit_code>>
    /\ UNCHANGED <<inputs, figure, stage1, stage2, stdout>>

\* Lines 38-39.
WebPrint == prog = "web" /\ pc = "print" /\ PrintResult

\* ------------------------------------------------------------ specification

Next ==
    \/ VizConfigure
    \/ VizReadCsv
    \/ VizStage1Call
    \/ VizStage1Parse
    \/ VizStage2Call
    \/ VizStage2Parse
    \/ VizFigure
    \/ VizRender
    \/ VizSave
    \/ VizPrint
    \/ QaConfigure
    \/ QaAsk
    \/ QaPrint
    \/ WebStart
    \/ WebConfigure
    \/ WebAsk
    \/ WebPrint

Spec == Init /\ [][Next]_vars

\* ------------------------------------------------------------------ claims

Exited == pc = "exited"
Failed == Exited /\ exit_code # 0
Called(name) == \E i \in 1..Len(calls) : calls[i] = name
Count(name) == Cardinality({i \in 1..Len(calls) : calls[i] = name})
ModelCallNames ==
    {"generate_content:meta", "generate_content:data", "generate_content:qa"}
ModelCalls(cs) == Cardinality({i \in 1..Len(cs) : cs[i] \in ModelCallNames})
JsonErrorWritten == \E i \in 1..Len(stderr) : stderr[i].kind = "json_error"
LastReport == stderr[Len(stderr)]
BothKeys ==
    /\ Subscriptable(meta_output, K_chart_type_suggestion)
    /\ Subscriptable(meta_output, K_optimized_prompt)

\* C1: with GEMINI_API_KEY unset or empty, every entry point stops at its
\* credential check: the run issues no generate_content call, it is never
\* anywhere but before the check or ended, it can always take its next step
\* until it has ended, and it ends with a non-zero exit code.
C1_MissingKeyShortCircuits ==
    KeyMissing =>
        /\ ModelCalls(calls) = 0
        /\ pc \in {"start", "configure", "exited"}
        /\ Exited \/ ENABLED Next
        /\ Exited => exit_code # 0

C1_Witness ==
    /\ prog = "viz" /\ module_found /\ key = "empty"
    /\ Exited /\ exit_code = 1 /\ calls = <<>>

\* C2: in generate_visualization, once Stage 1 has given a chart type other
\* than "bar", "pie" and "line", no result is returned, nothing is written to
\* standard output, and the run ends with a non-zero exit code.
C2_UnsupportedTypeNeverRenders ==
    (prog = "viz" /\ chart_type # NoValue /\ ~Supported(chart_type)) =>
        /\ result = NoValue
        /\ stdout = <<>>
        /\ ~Called("plt.savefig")
        /\ pc \notin {"save", "print"}
        /\ Exited => exit_code # 0

C2_Witness ==
    /\ prog = "viz" /\ chart_type = JStr(S_area)
    /\ Extractable(chart_data)
    /\ Failed /\ Called("plt.figure")

\* The replies that are a JSON text alone or in a fence of the given kinds,
\* each with the value its JSON text denotes.
Denotations(values, fences) ==
    {<<Wrap(Dumps(x, sep), f, o, i), x>> :
        x \in values, sep \in Seps, f \in fences, o \in Pads, i \in Pads}

MetaAnyFence == Denotations(MetaValues, Fences)
ChartAnyFence == Denotations(ChartValues, Fences)
MetaJsonFence == Denotations(MetaValues, {"none", "json"})
ChartJsonFence == Denotations(ChartValues, {"none", "json"})

\* The reply of a stage has gone through fence removal and json.loads.
Stage1Decoded ==
    prog = "viz" /\ meta_response # NoText /\ pc # "stage1_parse"
Stage2Decoded ==
    prog = "viz" /\ data_response # NoText /\ pc # "stage2_parse"

Recovered(denotations) ==
    /\ Stage1Decoded =>
          \A d \in denotations[1] : d[1] = meta_response => meta_output = d[2]
    /\ Stage2Decoded =>
          \A d \in denotations[2] : d[1] = data_response => chart_data = d[2]

\* C3 as stated: for every well-formed JSON text J, alone or in a code fence
\* whose opening marker is three backticks with or without the tag json,
\* fence removal followed by json.loads gives the value J denotes.
C3_RecoveredFromAnyFence == Recovered(<<MetaAnyFence, ChartAnyFence>>)

\* C3 as amended: for every well-formed JSON text J, alone or in a code fence
\* whose opening marker is three backticks followed by json, with whitespace
\* around the text and inside the fence, fence removal followed by json.loads
\* gives the value J denotes, in Stage 1 and in Stage 2.
C3_RecoveredFromJsonFence == Recovered(<<MetaJsonFence, ChartJsonFence>>)

C3_Witness ==
    /\ Stage2Decoded
    /\ data_response =
          Wrap(Dumps(ChartSpec(Points(1)), <<SP>>), "json", <<NL>>, <<NL>>)
    /\ chart_data = ChartSpec(Points(1))

\* C4: on every failure path of generate_visualization and answer_question a
\* JSON object {"error": ...} has been written to standard error when the
\* process ends with a non-zero exit code.
C4_EveryFailureReportsJson == Failed => JsonErrorWritten

\* The JSON text is one result object: {image, title} of the visualization,
\* {answer} of the two question scripts.
IsResult(text) ==
    LET d == JsonLoads(text)
    IN  /\ d.ok
        /\ d.val.t = "dict"
        /\ {d.val.v[i][1] : i \in 1..Len(d.val.v)} =
              (IF prog = "viz" THEN {K_image, K_title} ELSE {K_answer})

C6_NoRetry ==
    /\ [](/\ Count("generate_content:meta") <= 1
          /\ Count("generate_content:data") <= 1
          /\ Count("generate_content:qa") <= 1
          /\ ModelCalls(calls) <= (IF prog = "viz" THEN 2 ELSE 1)
          /\ stderr # <<>> => Exited)
    /\ [][stderr # <<>> => ModelCalls(calls') = ModelCalls(calls)]_vars

C6_Witness ==
    /\ prog = "viz" /\ Failed
    /\ calls = <<"generate_content:meta", "generate_content:data">>
    /\ LastReport.line = 87

\* C7: once Stage 3 has created the figure it is open only while Stage 3
\* runs, and it is closed when the run has ended, whichever way Stage 3 was
\* left: a result, a rendering exception, a missing key, an unknown chart type.
C7_FigureClosed ==
    /\ figure = "open" => pc \in {"render", "save"}
    /\ Exited => figure # "open"
    /\ Called("plt.figure") /\ Exited => calls[Len(calls)] = "plt.close"

C7_Witness ==
    /\ prog = "viz" /\ Failed /\ figure = "closed"
    /\ Extractable(chart_data) /\ ~Supported(chart_type)

\* The place of a library call in the order of the stages.
Rank(name) ==
    CASE name = "read_csv" -> 0
      [] name = "generate_content:meta" -> 1
      [] name = "generate_content:data" -> 2
      [] name = "plt.figure" -> 3
      [] name \in {"sns.barplot", "plt.pie", "sns.lineplot"} -> 4
      [] name = "plt.savefig" -> 5
      [] name = "plt.close" -> 6
      [] OTHER -> 7

\* C8: the visualization's stages run in order and each gates the next: the
\* Stage 2 call is issued only after a Stage 1 reply that decoded and held
\* both keys, the figure is created only after a Stage 2 reply that decoded,
\* and a result is returned only after drawing and saving were done.
C8_StagesGate ==
    prog = "viz" =>
        /\ \A i, j \in 1..Len(calls) : i < j => Rank(calls[i]) < Rank(calls[j])
        /\ Called("generate_content:data") =>
              /\ Called("generate_content:meta")
              /\ JsonLoads(ReSubFence(Strip(meta_response))).ok
              /\ BothKeys
        /\ Called("plt.figure") =>
              /\ Called("generate_content:data")
              /\ JsonLoads(ReSubFence(Strip(data_response))).ok
              /\ chart_data # NoValue
        /\ result # NoValue =>
              /\ Called("plt.figure")
              /\ \E i \in 1..Len(calls) : Rank(calls[i]) = 4
              /\ Called("plt.savefig")

C8_Witness ==
    /\ prog = "viz" /\ Failed
    /\ Called("generate_content:data") /\ ~Called("plt.figure")
    /\ data_response \in Malformed

\* C9: the chart type is not checked before Stage 2: after a Stage 1 reply
\* with both keys and a chart type outside bar, pie and line, the Stage 2 call
\* is the run's next step and the run does not end before it, and with a
\* Stage 2 reply that holds
\* title and data_points it ends in the handler of the rendering stage, the
\* figure created and closed.
C9_TypeCheckedOnlyWhenRendering ==
    (prog = "viz" /\ BothKeys /\ ~Supported(chart_type)) =>
        /\ pc = "stage2" => ENABLED VizStage2Call
        /\ Exited => Called("generate_content:data")
        /\ (Exited /\ Extractable(chart_data)) =>
              /\ Called("plt.figure")
              /\ figure = "closed"
              /\ LastReport.line = 129

C9_Witness ==
    /\ prog = "viz" /\ BothKeys /\ chart_type = JStr(S_area)
    /\ Extractable(chart_data) /\ Failed
    /\ LastReport.line = 129

\* C10: in generate_visualization pd.read_csv is called only with --csv, after
\* the credential check and before any model call; when it cannot read the
\* input the run ends with a non-zero exit code and issues no model call.
C10_CsvBeforeStage1 ==
    prog = "viz" =>
        /\ ~is_csv => ~Called("read_csv")
        /\ Called("read_csv") => module_found /\ ~KeyMissing
        /\ (is_csv /\ ModelCalls(calls) > 0) => calls[1] = "read_csv"
        /\ (is_csv /\ ~csv_ok) =>
              /\ ModelCalls(calls) = 0
              /\ pc \in {"start", "read_csv", "exited"}
              /\ Exited \/ ENABLED Next
              /\ Exited => exit_code # 0

C10_Witness ==
    /\ prog = "viz" /\ is_csv /\ ~csv_ok
    /\ Failed /\ calls = <<"read_csv">>

====
